---- MODULE Spec2Model ----
(***************************************************************************)
(* BehaviorManager of backend/behavioral/behavior_manager.py: the per-user *)
(* behaviour profiles, the bounded behaviour buffer, the per-user scaler   *)
(* and outlier model, and the operations process_keystroke_data,           *)
(* process_mouse_data, process_device_data, get_security_score and         *)
(* create_user_profile.                                                    *)
(*                                                                         *)
(* Numbers.  Anomaly scores and decision margins are in hundredths (0.15   *)
(* is 15, 0.5 is 50, 1.0 is 100).  Typing speeds are exact rationals       *)
(* [n, d], d > 0, in lowest terms.  Python dicts are functions whose       *)
(* DOMAIN is the set of keys present; Python None is the string "None".    *)
(*                                                                         *)
(* The outlier backend (scikit-learn) is not part of the repository.  It   *)
(* is modelled by what the code asks of it: fit stores the training rows,  *)
(* decision_function is a deterministic but unknown function of the fitted *)
(* data and the feature vector (revealed one query at a time in            *)
(* decisions), and predict is -1 exactly when that margin is negative.     *)
(***************************************************************************)
EXTENDS Integers, Sequences, FiniteSets, TLC

VARIABLES
    user_profiles,   \* self.user_profiles: user id -> profile
    behavior_buffer, \* self.behavior_buffer: user id -> recent tagged events
    anomaly_models,  \* self.anomaly_models: user id -> model object
    scalers,         \* self.scalers: user id -> scaler object
    backend,         \* what the import of the backend produced (fixed)
    decisions,       \* the backend's decision function, as far as queried
    now,             \* the clock datetime.now() reads; one tick per call
    budget,          \* calls still to be explored from this state
    call,            \* the last call made: operation, user, argument
    result,          \* the record that call returned
    submitted,       \* per user, every event of every batch processed without
                     \* a fault, tagged, in submission order (history only)
    previous,        \* the call before the last one and what it returned
                     \* (history only)
    threads,         \* the calls in progress in concurrent request threads:
                     \* thread -> operation, batch, position, locals
    caller_events    \* the argument of the last call as the caller finds it
                     \* once the call has returned

vars == <<user_profiles, behavior_buffer, anomaly_models, scalers,
          backend, decisions, now, budget, call, result, submitted, previous,
          threads, caller_events>>

----------------------------------------------------------------------------
(* Bounds of the model. *)

\* calls explored after the initial state
MaxCalls == 3

\* calls explored in a long session, in which the histories fill up
MaxLongCalls == 104

----------------------------------------------------------------------------
(* Python values. *)

None == "None"

\* bool(v) of a string-or-None value: None and '' are false
Truthy(v) == v \notin {None, ""}

\* a value that is not a dict where the code expects one (None, a string):
\* it has no get method and cannot be iterated as key/value pairs
NonDict(v) == [nondict |-> v]

IsDict(v) == "nondict" \notin DOMAIN v

\* d.get(k), d.get(k, default)
Get(d, k, default) == IF k \in DOMAIN d THEN d[k] ELSE default

\* d[k] = v on a dict
Put(d, k, v) == [x \in (DOMAIN d) \cup {k} |-> IF x = k THEN v ELSE d[x]]

\* d.update(e)
Update(d, e) == [x \in (DOMAIN d) \cup (DOMAIN e) |-> IF x \in DOMAIN e THEN e[x] ELSE d[x]]

\* s[-n:]
LastN(s, n) == IF Len(s) <= n THEN s ELSE SubSeq(s, Len(s) - n + 1, Len(s))

Abs(i) == IF i < 0 THEN -i ELSE i

RECURSIVE GCD(_, _)
GCD(a, b) == IF b = 0 THEN a ELSE GCD(b, a % b)

\* the float a / b, b # 0, as an exact rational in lowest terms
Rat(a, b) ==
    LET g == GCD(Abs(a), Abs(b))
        s == IF b < 0 THEN -1 ELSE 1
    IN  [n |-> (s * a) \div g, d |-> (s * b) \div g]

Zero == Rat(0, 1)

\* (x + y) / 2
RatAvg(x, y) == Rat(x.n * y.d + y.n * x.d, 2 * x.d * y.d)

\* max(s), s not empty
SeqMax(s) == CHOOSE x \in {s[i] : i \in DOMAIN s} : \A i \in DOMAIN s : x >= s[i]

RECURSIVE SeqSum(_)
SeqSum(s) == IF s = <<>> THEN 0 ELSE s[1] + SeqSum(Tail(s))

\* datetime.now().isoformat() read at clock value t
IsoFormat(t) == [iso |-> t]

----------------------------------------------------------------------------
(* The backend objects. *)

\* SKLEARN_AVAILABLE: the imports of IsolationForest and StandardScaler
\* succeeded.  "plain": an unfitted model object is truthy;
\* "sized": the model is an ensemble whose truth value is its number of
\* fitted estimators, which an unfitted model does not have (the test raises)
Backends == {"unavailable", "plain", "sized"}

SKLEARN_AVAILABLE == backend # "unavailable"

\* np is not None: numpy is there whenever the backend is
NumpyAvailable == SKLEARN_AVAILABLE

NoObject == [kind |-> "None", data |-> <<>>]

\* IsolationForest(**self.model_params), StandardScaler()
Unfitted == [kind |-> "Unfitted", data |-> <<>>]

\* obj.fit(training_array)
Fit(obj, training_array) == [kind |-> "Fitted", data |-> training_array]

\* bool(model): "True", "False" or "raise"
ModelTruth(model) ==
    IF model.kind = "None" THEN "False"
    ELSE IF model.kind = "Unfitted" /\ backend = "sized" THEN "raise"
    ELSE "True"

\* bool(scaler)
ScalerTruth(scaler) == IF scaler.kind = "None" THEN "False" ELSE "True"

\* decision margins the backend may return, in hundredths
Margins == {-60, -35, 0, 60}

\* the query the backend answers: fitted scaler, fitted model, raw vector
Query(scaler, model, feature_vector) == <<scaler.data, model.data, feature_vector>>

----------------------------------------------------------------------------
(* Program constants. *)

\* self.buffer_size
buffer_size == 50

\* len(keystroke_intervals) > 1000: the interval history's cap
MaxIntervals == 1000

\* len(click_patterns) > 100: the click history's cap
MaxClickPatterns == 100

\* len(keystroke_intervals) >= 50
SufficientKeystrokes == 50

\* len(click_patterns) >= 20
SufficientMouse == 20

\* 'anomaly_threshold': 0.15
DefaultAnomalyThreshold == 15

\* return 0.1 when the backend is not available
SentinelScore == 10

\* anomaly_score > 0.5 in _analyze_recent_behavior
RecentThreshold == 50

----------------------------------------------------------------------------
(* The manager object, as a record of its dicts. *)

Self ==
    [user_profiles |-> user_profiles, behavior_buffer |-> behavior_buffer,
     anomaly_models |-> anomaly_models, scalers |-> scalers]

EmptyDict == [x \in {} |-> None]

\* BehaviorManager.__init__
NewManager ==
    [user_profiles |-> EmptyDict, behavior_buffer |-> EmptyDict,
     anomaly_models |-> EmptyDict, scalers |-> EmptyDict]

DeviceFields == {"screen_resolution", "browser_info", "os_info", "ip_address"}

\* the profile dict create_user_profile builds
NewProfile(user_id, t) ==
    [user_id |-> user_id,
     created_at |-> IsoFormat(t),
     keystroke_patterns |->
        [avg_typing_speed |-> Zero, keystroke_intervals |-> <<>>,
         error_rate |-> Zero, common_sequences |-> <<>>],
     mouse_patterns |->
        [avg_movement_speed |-> Zero, click_patterns |-> <<>>,
         scroll_patterns |-> <<>>, movement_variance |-> Zero],
     device_patterns |-> [k \in DeviceFields |-> None],
     baseline_established |-> FALSE,
     anomaly_threshold |-> DefaultAnomalyThreshold]

\* (mutant) the new profile's buffer is one fresh list bound to every user
create_user_profile_one_buffer(self, user_id, t) ==
    [user_profiles |-> Put(self.user_profiles, user_id, NewProfile(user_id, t)),
     behavior_buffer |->
        [k \in (DOMAIN self.behavior_buffer) \cup {user_id} |-> <<>>],
     anomaly_models |->
        Put(self.anomaly_models, user_id,
            IF SKLEARN_AVAILABLE THEN Unfitted ELSE NoObject),
     scalers |->
        Put(self.scalers, user_id,
            IF SKLEARN_AVAILABLE THEN Unfitted ELSE NoObject)]

create_user_profile(self, user_id, t) ==
    [user_profiles |-> Put(self.user_profiles, user_id, NewProfile(user_id, t)),
     behavior_buffer |-> Put(self.behavior_buffer, user_id, <<>>),
     anomaly_models |->
        Put(self.anomaly_models, user_id,
            IF SKLEARN_AVAILABLE THEN Unfitted ELSE NoObject),
     scalers |->
        Put(self.scalers, user_id,
            IF SKLEARN_AVAILABLE THEN Unfitted ELSE NoObject)]

\* (mutant) the profile is created whether or not there is one
EnsureProfileAfresh(self, user_id, t) == create_user_profile(self, user_id, t)

\* if user_id not in self.user_profiles: self.create_user_profile(user_id)
EnsureProfile(self, user_id, t) ==
    IF user_id \notin DOMAIN self.user_profiles
    THEN create_user_profile(self, user_id, t)
    ELSE self

----------------------------------------------------------------------------
(* Feature extraction. *)

\* a raised exception, in place of a returned value
Raised(e) == [raised |-> e]

IsRaised(v) == "raised" \in DOMAIN v

\* [e for e in events if e.get('type') == type]
OfType(events, type) == SelectSeq(events, LAMBDA e : Get(e, "type", None) = type)

\* [e.get('timestamp') for e in events if e.get('type') == 'keydown']
KeydownTimes(events) ==
    LET keydowns == OfType(events, "keydown")
    IN  [i \in 1..Len(keydowns) |-> keydowns[i].timestamp]

\* [times[i] - times[i-1] for i in range(1, len(times))]
Intervals(times) == [i \in 1..(Len(times) - 1) |-> times[i + 1] - times[i]]

\* (mutant) a largest interval of 0 is divided by as 1
_extract_keystroke_dividing_by_one(events) ==
    IF events = <<>> THEN EmptyDict
    ELSE IF \E i \in DOMAIN events : ~IsDict(events[i])
    THEN Raised("AttributeError")
    ELSE LET keydown_times == KeydownTimes(events)
             intervals == Intervals(keydown_times)
         IN  IF Len(keydown_times) > 1
             THEN IF SeqMax(intervals) = 0
                  THEN [typing_speed |-> Rat(Len(events), 1),
                        keystroke_intervals |-> intervals,
                        error_count |-> Zero,
                        special_key_usage |-> Zero]
                  ELSE [typing_speed |-> Rat(Len(events), SeqMax(intervals)),
                        keystroke_intervals |-> intervals,
                        error_count |-> Zero,
                        special_key_usage |-> Zero]
             ELSE [typing_speed |-> Zero,
                   keystroke_intervals |-> <<>>,
                   error_count |-> Zero,
                   special_key_usage |-> Zero]

_extract_keystroke_features(events) ==
    IF events = <<>> THEN EmptyDict
    ELSE IF \E i \in DOMAIN events : ~IsDict(events[i])
    THEN Raised("AttributeError")
    ELSE LET keydown_times == KeydownTimes(events)
             intervals == Intervals(keydown_times)
         IN  IF Len(keydown_times) > 1
             THEN IF SeqMax(intervals) = 0
                  THEN Raised("ZeroDivisionError")
                  ELSE [typing_speed |-> Rat(Len(events), SeqMax(intervals)),
                        keystroke_intervals |-> intervals,
                        error_count |-> Zero,
                        special_key_usage |-> Zero]
             ELSE [typing_speed |-> Zero,
                   keystroke_intervals |-> <<>>,
                   error_count |-> Zero,
                   special_key_usage |-> Zero]

\* the number of events of the given subtype
CountType(events, type) == Len(OfType(events, type))

_extract_mouse_features(events) ==
    IF events = <<>> THEN EmptyDict
    ELSE IF \E i \in DOMAIN events : ~IsDict(events[i])
    THEN Raised("AttributeError")
    ELSE [movement_speed |-> Zero,
          click_count |-> CountType(events, "click"),
          scroll_count |-> CountType(events, "scroll"),
          movement_variance |-> Zero]

----------------------------------------------------------------------------
(* Profile updates. *)

\* (mutant) the extended history is never cut back
ExtendIntervalsUncapped(intervals, new) == intervals \o new

\* keystroke_intervals.extend(new), then the cap
ExtendIntervals(intervals, new) == LastN(intervals \o new, MaxIntervals)

\* click_patterns.append(click_count), then the cap
AppendClicks(click_patterns, click_count) ==
    LastN(Append(click_patterns, click_count), MaxClickPatterns)

\* (current_avg + new_speed) / 2 if current_avg else new_speed
RunningAverage(current_avg, new_speed) ==
    IF current_avg.n # 0 THEN RatAvg(current_avg, new_speed) ELSE new_speed

_update_keystroke_profile(profile, features) ==
    LET kp == profile.keystroke_patterns
        speed == Get(features, "typing_speed", Zero)
        new == Get(features, "keystroke_intervals", <<>>)
        kp1 == IF speed.n # 0
               THEN [kp EXCEPT !.avg_typing_speed = RunningAverage(@, speed)]
               ELSE kp
        kp2 == IF new # <<>>
               THEN [kp1 EXCEPT !.keystroke_intervals = ExtendIntervals(@, new)]
               ELSE kp1
    IN  [profile EXCEPT !.keystroke_patterns = kp2]

_update_mouse_profile(profile, features) ==
    LET mp == profile.mouse_patterns
        speed == Get(features, "movement_speed", Zero)
        clicks == Get(features, "click_count", 0)
        mp1 == IF speed.n # 0
               THEN [mp EXCEPT !.avg_movement_speed = RunningAverage(@, speed)]
               ELSE mp
        mp2 == IF clicks # 0
               THEN [mp1 EXCEPT !.click_patterns = AppendClicks(@, clicks)]
               ELSE mp1
    IN  [profile EXCEPT !.mouse_patterns = mp2]

\* (mutant) both comparisons strict
_check_baseline_strict(profile) ==
    \/ Len(profile.keystroke_patterns.keystroke_intervals) > SufficientKeystrokes
    \/ Len(profile.mouse_patterns.click_patterns) > SufficientMouse

_check_baseline_sufficient(profile) ==
    LET sufficient_keystrokes ==
            Len(profile.keystroke_patterns.keystroke_intervals) >= SufficientKeystrokes
        sufficient_mouse ==
            Len(profile.mouse_patterns.click_patterns) >= SufficientMouse
    IN  sufficient_keystrokes \/ sufficient_mouse

----------------------------------------------------------------------------
(* Scoring and training. *)

\* (mutant) the backend answers afresh each time it is asked
DecideAfresh(q, m) == m

\* the margin decision_function returns for query q: the one already
\* given for q, or else the margin m the backend turns out to give
Decide(q, m) == IF q \in DOMAIN decisions THEN decisions[q] ELSE m

\* (mutant) the margin is shifted but not clamped
Unclamped(x) == x

\* max(0, min(1, x)), in hundredths
Clamp01(x) == IF x < 0 THEN 0 ELSE IF x > 100 THEN 100 ELSE x

\* what a _detect_* call returns, and the queries it put to the backend
Scored(score, asked) == [score |-> score, asked |-> asked]

\* both objects loaded, tested and usable: transform and predict do not raise
CanScore(self, user_id) ==
    LET model == Get(self.anomaly_models, user_id, NoObject)
        scaler == Get(self.scalers, user_id, NoObject)
    IN  /\ ModelTruth(model) = "True"
        /\ ScalerTruth(scaler) = "True"
        /\ scaler.kind = "Fitted"
        /\ model.kind = "Fitted"

\* (mutant) the test of SKLEARN_AVAILABLE is missing
_detect_keystroke_unguarded(self, user_id, features, m) ==
    IF ~CanScore(self, user_id) THEN Scored(0, {})
    ELSE LET feature_vector ==
                 <<Get(features, "typing_speed", Zero),
                   Rat(Len(Get(features, "keystroke_intervals", <<>>)), 1),
                   Get(features, "error_count", Zero),
                   Get(features, "special_key_usage", Zero)>>
             q == Query(self.scalers[user_id], self.anomaly_models[user_id],
                        feature_vector)
         IN  Scored(Clamp01(Decide(q, m) + 50), {q})

_detect_keystroke_anomalies(self, user_id, features, m) ==
    IF ~SKLEARN_AVAILABLE THEN Scored(SentinelScore, {})
    ELSE IF ~CanScore(self, user_id) THEN Scored(0, {})
    ELSE LET feature_vector ==
                 <<Get(features, "typing_speed", Zero),
                   Rat(Len(Get(features, "keystroke_intervals", <<>>)), 1),
                   Get(features, "error_count", Zero),
                   Get(features, "special_key_usage", Zero)>>
             q == Query(self.scalers[user_id], self.anomaly_models[user_id],
                        feature_vector)
         IN  Scored(Clamp01(Decide(q, m) + 50), {q})

\* (mutant) the test of SKLEARN_AVAILABLE is missing
_detect_mouse_unguarded(self, user_id, features, m) ==
    IF ~CanScore(self, user_id) THEN Scored(0, {})
    ELSE LET feature_vector ==
                 <<Get(features, "movement_speed", Zero),
                   Rat(Get(features, "click_count", 0), 1),
                   Rat(Get(features, "scroll_count", 0), 1),
                   Get(features, "movement_variance", Zero)>>
             q == Query(self.scalers[user_id], self.anomaly_models[user_id],
                        feature_vector)
             prediction == IF Decide(q, m) < 0 THEN -1 ELSE 1
         IN  Scored(IF prediction = 1 THEN 0 ELSE 100, {q})

_detect_mouse_anomalies(self, user_id, features, m) ==
    IF ~SKLEARN_AVAILABLE THEN Scored(SentinelScore, {})
    ELSE IF ~CanScore(self, user_id) THEN Scored(0, {})
    ELSE LET feature_vector ==
                 <<Get(features, "movement_speed", Zero),
                   Rat(Get(features, "click_count", 0), 1),
                   Rat(Get(features, "scroll_count", 0), 1),
                   Get(features, "movement_variance", Zero)>>
             q == Query(self.scalers[user_id], self.anomaly_models[user_id],
                        feature_vector)
             prediction == IF Decide(q, m) < 0 THEN -1 ELSE 1
         IN  Scored(IF prediction = 1 THEN 0 ELSE 100, {q})

\* the rows _train_user_model collects from the profile
TrainingData(profile) ==
    LET kp == profile.keystroke_patterns
        mp == profile.mouse_patterns
        mean_clicks ==
            IF mp.click_patterns # <<>>
            THEN Rat(SeqSum(mp.click_patterns), Len(mp.click_patterns))
            ELSE Zero
    IN  (IF kp.avg_typing_speed.n > 0
         THEN << <<kp.avg_typing_speed, Rat(Len(kp.keystroke_intervals), 1),
                   kp.error_rate, Zero>> >>
         ELSE <<>>)
        \o
        (IF mp.avg_movement_speed.n > 0
         THEN << <<mp.avg_movement_speed, mean_clicks, Zero,
                   mp.movement_variance>> >>
         ELSE <<>>)

_train_user_model(self, user_id) ==
    IF ~SKLEARN_AVAILABLE THEN self
    ELSE IF user_id \notin DOMAIN self.user_profiles THEN self
    ELSE LET training_data == TrainingData(self.user_profiles[user_id])
             scaler == self.scalers[user_id]
             model == self.anomaly_models[user_id]
             fitted_scaler ==
                 IF ScalerTruth(scaler) = "True"
                 THEN [self EXCEPT !.scalers[user_id] = Fit(scaler, training_data)]
                 ELSE self
         IN  IF Len(training_data) > 0 /\ NumpyAvailable
             THEN IF ModelTruth(model) = "True"
                  THEN [fitted_scaler EXCEPT
                            !.anomaly_models[user_id] = Fit(model, training_data)]
                  ELSE fitted_scaler
             ELSE self

\* (mutant) the comparison is not strict
CountedInclusive(anomaly_score) == anomaly_score >= RecentThreshold

\* if anomaly_score > 0.5
Counted(anomaly_score) == anomaly_score > RecentThreshold

\* (both channels re-extract from buffered events, whose subtypes were
\* overwritten by the tags)
_analyze_recent_behavior(self, user_id, events, t, m) ==
    LET keystroke_events == OfType(events, "keystroke")
        mouse_events == OfType(events, "mouse")
        k == _detect_keystroke_anomalies(
                 self, user_id, _extract_keystroke_features(keystroke_events), m)
        ms == _detect_mouse_anomalies(
                 self, user_id, _extract_mouse_features(mouse_events), m)
        k_found == keystroke_events # <<>> /\ Counted(k.score)
        m_found == mouse_events # <<>> /\ Counted(ms.score)
    IN  [anomalies |->
            (IF k_found
             THEN <<[type |-> "keystroke", score |-> k.score,
                     timestamp |-> IsoFormat(t)]>>
             ELSE <<>>)
            \o
            (IF m_found
             THEN <<[type |-> "mouse", score |-> ms.score,
                     timestamp |-> IsoFormat(t)]>>
             ELSE <<>>),
         asked |->
            (IF keystroke_events # <<>> THEN k.asked ELSE {})
            \cup (IF mouse_events # <<>> THEN ms.asked ELSE {})]

----------------------------------------------------------------------------
(* The public operations, as functions of the manager, the arguments, the  *)
(* clock value t the call reads and the margin m the backend gives to a    *)
(* query it has not answered before.  Each returns the manager after the   *)
(* call, the record returned and the queries put to the backend.           *)

Outcome(self, results, asked) == [self |-> self, results |-> results, asked |-> asked]

\* event['type'] = tag; event['timestamp'] = datetime.now().isoformat()
Tagged(event, tag, t) == Put(Put(event, "type", tag), "timestamp", IsoFormat(t))

TagAll(events, tag, t) == [i \in 1..Len(events) |-> Tagged(events[i], tag, t)]

\* (mutant) the buffer is given copies; the caller's records stay as passed
CallerEventsCopied(events, tag, t) == events

\* the loop assigns to event['type'] and event['timestamp'] of the very
\* dicts of the caller's list, and appends those dicts
CallerEvents(events, tag, t) == TagAll(events, tag, t)

\* (mutant) the slice keeps the oldest entries
AppendKeepOldest(buffer, events, tag, t) ==
    LET all == buffer \o TagAll(events, tag, t)
    IN  IF Len(all) > buffer_size THEN SubSeq(all, 1, buffer_size) ELSE all

\* the appends of one batch, then the buffer_size cap
AppendToBuffer(buffer, events, tag, t) ==
    LastN(buffer \o TagAll(events, tag, t), buffer_size)

\* process_keystroke_data(user_id, None), process_mouse_data(user_id, None):
\* the profile is created if missing, then len(None) raises TypeError while
\* the results dict is built, before the try block is entered
process_batch_none(self, user_id, t) ==
    Outcome(EnsureProfile(self, user_id, t), Raised("TypeError"), {})

\* (mutant) the comparison with the threshold is not strict
ReachesThreshold(anomaly_score, anomaly_threshold) == anomaly_score >= anomaly_threshold

\* if anomaly_score > profile['anomaly_threshold']
ExceedsThreshold(anomaly_score, anomaly_threshold) == anomaly_score > anomaly_threshold

\* (mutant) the baseline is established before the batch is scored
process_keystroke_scoring_at_flip(self, user_id, keystroke_events, t, m) ==
    LET s0 == EnsureProfile(self, user_id, t)
        profile == s0.user_profiles[user_id]
        results ==
            [user_id |-> user_id,
             events_processed |-> Len(keystroke_events),
             anomaly_score |-> 0,
             anomalies_detected |-> <<>>,
             timestamp |-> IsoFormat(t)]
        features == _extract_keystroke_features(keystroke_events)
        updated == _update_keystroke_profile(profile, features)
        s1 == [s0 EXCEPT
                 !.user_profiles[user_id] = updated,
                 !.behavior_buffer[user_id] =
                     AppendToBuffer(@, keystroke_events, "keystroke", t)]
        s2 == IF ~updated.baseline_established /\ _check_baseline_sufficient(updated)
              THEN _train_user_model(
                       [s1 EXCEPT !.user_profiles[user_id].baseline_established = TRUE],
                       user_id)
              ELSE s1
        scored == _detect_keystroke_anomalies(s2, user_id, features, m)
    IN  IF IsRaised(features)
        THEN Outcome(s0, Put(results, "error", features.raised), {})
        ELSE IF s2.user_profiles[user_id].baseline_established
        THEN Outcome(s2,
                 [results EXCEPT
                    !.anomaly_score = scored.score,
                    !.anomalies_detected =
                        IF ExceedsThreshold(scored.score, updated.anomaly_threshold)
                        THEN <<[type |-> "keystroke", score |-> scored.score,
                                description |-> "Unusual keystroke pattern detected"]>>
                        ELSE <<>>],
                 scored.asked)
        ELSE Outcome(s1, results, {})

process_keystroke_data(self, user_id, keystroke_events, t, m) ==
    LET s0 == EnsureProfile(self, user_id, t)
        profile == s0.user_profiles[user_id]
        results ==
            [user_id |-> user_id,
             events_processed |-> Len(keystroke_events),
             anomaly_score |-> 0,
             anomalies_detected |-> <<>>,
             timestamp |-> IsoFormat(t)]
        features == _extract_keystroke_features(keystroke_events)
        updated == _update_keystroke_profile(profile, features)
        s1 == [s0 EXCEPT
                 !.user_profiles[user_id] = updated,
                 !.behavior_buffer[user_id] =
                     AppendToBuffer(@, keystroke_events, "keystroke", t)]
        scored == _detect_keystroke_anomalies(s1, user_id, features, m)
    IN  IF IsRaised(features)
        THEN Outcome(s0, Put(results, "error", features.raised), {})
        ELSE IF updated.baseline_established
        THEN Outcome(s1,
                 [results EXCEPT
                    !.anomaly_score = scored.score,
                    !.anomalies_detected =
                        IF ExceedsThreshold(scored.score, updated.anomaly_threshold)
                        THEN <<[type |-> "keystroke", score |-> scored.score,
                                description |-> "Unusual keystroke pattern detected"]>>
                        ELSE <<>>],
                 scored.asked)
        ELSE IF _check_baseline_sufficient(updated)
        THEN Outcome(
                 _train_user_model(
                     [s1 EXCEPT !.user_profiles[user_id].baseline_established = TRUE],
                     user_id),
                 results, {})
        ELSE Outcome(s1, results, {})

\* (mutant) the model is fitted again with every scored batch
process_mouse_data_refitting(self, user_id, mouse_events, t, m) ==
    LET s0 == EnsureProfile(self, user_id, t)
        profile == s0.user_profiles[user_id]
        results ==
            [user_id |-> user_id,
             events_processed |-> Len(mouse_events),
             anomaly_score |-> 0,
             anomalies_detected |-> <<>>,
             timestamp |-> IsoFormat(t)]
        features == _extract_mouse_features(mouse_events)
        updated == _update_mouse_profile(profile, features)
        s1 == [s0 EXCEPT
                 !.user_profiles[user_id] = updated,
                 !.behavior_buffer[user_id] =
                     AppendToBuffer(@, mouse_events, "mouse", t)]
        scored == _detect_mouse_anomalies(s1, user_id, features, m)
    IN  IF IsRaised(features)
        THEN Outcome(s0, Put(results, "error", features.raised), {})
        ELSE IF updated.baseline_established
        THEN Outcome(_train_user_model(s1, user_id),
                 [results EXCEPT
                    !.anomaly_score = scored.score,
                    !.anomalies_detected =
                        IF ExceedsThreshold(scored.score, updated.anomaly_threshold)
                        THEN <<[type |-> "mouse", score |-> scored.score,
                                description |-> "Unusual mouse movement pattern detected"]>>
                        ELSE <<>>],
                 scored.asked)
        ELSE Outcome(s1, results, {})

process_mouse_data(self, user_id, mouse_events, t, m) ==
    LET s0 == EnsureProfile(self, user_id, t)
        profile == s0.user_profiles[user_id]
        results ==
            [user_id |-> user_id,
             events_processed |-> Len(mouse_events),
             anomaly_score |-> 0,
             anomalies_detected |-> <<>>,
             timestamp |-> IsoFormat(t)]
        features == _extract_mouse_features(mouse_events)
        updated == _update_mouse_profile(profile, features)
        s1 == [s0 EXCEPT
                 !.user_profiles[user_id] = updated,
                 !.behavior_buffer[user_id] =
                     AppendToBuffer(@, mouse_events, "mouse", t)]
        scored == _detect_mouse_anomalies(s1, user_id, features, m)
    IN  IF IsRaised(features)
        THEN Outcome(s0, Put(results, "error", features.raised), {})
        ELSE IF updated.baseline_established
        THEN Outcome(s1,
                 [results EXCEPT
                    !.anomaly_score = scored.score,
                    !.anomalies_detected =
                        IF ExceedsThreshold(scored.score, updated.anomaly_threshold)
                        THEN <<[type |-> "mouse", score |-> scored.score,
                                description |-> "Unusual mouse movement pattern detected"]>>
                        ELSE <<>>],
                 scored.asked)
        ELSE Outcome(s1, results, {})

\* (mutant) the comparison without the test for a stored value
DeviceChangedUnguarded(device_patterns, device_info, field) ==
    device_patterns[field] # Get(device_info, field, None)

\* one of the three comparisons of process_device_data
DeviceChanged(device_patterns, device_info, field) ==
    /\ Truthy(device_patterns[field])
    /\ device_patterns[field] # Get(device_info, field, None)

DeviceAnomaly(description, severity) ==
    [type |-> "device", description |-> description, severity |-> severity]

\* (mutant) profile.update(device_info) in place of device_patterns.update
process_device_data_updating_profile(self, user_id, device_info, t) ==
    LET s0 == EnsureProfile(self, user_id, t)
        device_patterns == s0.user_profiles[user_id].device_patterns
        anomalies ==
            (IF DeviceChanged(device_patterns, device_info, "screen_resolution")
             THEN <<DeviceAnomaly("Screen resolution changed", "medium")>>
             ELSE <<>>)
            \o
            (IF DeviceChanged(device_patterns, device_info, "browser_info")
             THEN <<DeviceAnomaly("Browser information changed", "low")>>
             ELSE <<>>)
            \o
            (IF DeviceChanged(device_patterns, device_info, "ip_address")
             THEN <<DeviceAnomaly("IP address changed - potential location change",
                                  "high")>>
             ELSE <<>>)
        results ==
            [user_id |-> user_id,
             device_match |-> TRUE,
             anomalies_detected |-> <<>>,
             timestamp |-> IsoFormat(t)]
    IN  IF ~IsDict(device_info)
        THEN Outcome(s0,
                 Put(results, "error",
                     IF \E f \in {"screen_resolution", "browser_info", "ip_address"} :
                            Truthy(device_patterns[f])
                     THEN "AttributeError" ELSE "TypeError"),
                 {})
        ELSE Outcome(
                 [s0 EXCEPT !.user_profiles[user_id] = Update(@, device_info)],
                 [results EXCEPT !.anomalies_detected = anomalies],
                 {})

process_device_data(self, user_id, device_info, t) ==
    LET s0 == EnsureProfile(self, user_id, t)
        device_patterns == s0.user_profiles[user_id].device_patterns
        anomalies ==
            (IF DeviceChanged(device_patterns, device_info, "screen_resolution")
             THEN <<DeviceAnomaly("Screen resolution changed", "medium")>>
             ELSE <<>>)
            \o
            (IF DeviceChanged(device_patterns, device_info, "browser_info")
             THEN <<DeviceAnomaly("Browser information changed", "low")>>
             ELSE <<>>)
            \o
            (IF DeviceChanged(device_patterns, device_info, "ip_address")
             THEN <<DeviceAnomaly("IP address changed - potential location change",
                                  "high")>>
             ELSE <<>>)
        results ==
            [user_id |-> user_id,
             device_match |-> TRUE,
             anomalies_detected |-> <<>>,
             timestamp |-> IsoFormat(t)]
    IN  IF ~IsDict(device_info)
        THEN Outcome(s0,
                 Put(results, "error",
                     IF \E f \in {"screen_resolution", "browser_info", "ip_address"} :
                            Truthy(device_patterns[f])
                     THEN "AttributeError" ELSE "TypeError"),
                 {})
        ELSE Outcome(
                 [s0 EXCEPT !.user_profiles[user_id].device_patterns =
                                Update(device_patterns, device_info)],
                 [results EXCEPT !.anomalies_detected = anomalies],
                 {})

\* (mutant) min and max swapped
ClampScoreSwapped(score) ==
    IF (IF score < 100 THEN 100 ELSE score) > 0 THEN 0
    ELSE (IF score < 100 THEN 100 ELSE score)

\* max(0, min(100, score))
ClampScore(score) == IF score < 0 THEN 0 ELSE IF score > 100 THEN 100 ELSE score

RiskLevel(anomalies_count) ==
    IF anomalies_count = 0 THEN "low"
    ELSE IF anomalies_count <= 2 THEN "medium"
    ELSE "high"

\* (mutant) a user without a profile is given one
get_or_create_security_score(self, user_id, t, m) ==
    IF user_id \notin DOMAIN self.user_profiles
    THEN Outcome(create_user_profile(self, user_id, t),
             [user_id |-> user_id,
              security_score |-> 0,
              risk_level |-> "unknown",
              anomalies_count |-> 0,
              baseline_established |-> FALSE],
             {})
    ELSE LET profile == self.user_profiles[user_id]
             recent_events == Get(self.behavior_buffer, user_id, <<>>)
             recent == _analyze_recent_behavior(self, user_id, recent_events, t, m)
             anomalies_count ==
                 IF recent_events # <<>> THEN Len(recent.anomalies) ELSE 0
         IN  Outcome(self,
                 [user_id |-> user_id,
                  security_score |-> ClampScore(100 - anomalies_count * 10),
                  risk_level |->
                      IF recent_events # <<>> THEN RiskLevel(anomalies_count)
                      ELSE "low",
                  anomalies_count |-> anomalies_count,
                  baseline_established |-> profile.baseline_established,
                  timestamp |-> IsoFormat(t)],
                 IF recent_events # <<>> THEN recent.asked ELSE {})

get_security_score(self, user_id, t, m) ==
    IF user_id \notin DOMAIN self.user_profiles
    THEN Outcome(self,
             [user_id |-> user_id,
              security_score |-> 0,
              risk_level |-> "unknown",
              anomalies_count |-> 0,
              baseline_established |-> FALSE],
             {})
    ELSE LET profile == self.user_profiles[user_id]
             recent_events == Get(self.behavior_buffer, user_id, <<>>)
             recent == _analyze_recent_behavior(self, user_id, recent_events, t, m)
             anomalies_count ==
                 IF recent_events # <<>> THEN Len(recent.anomalies) ELSE 0
         IN  Outcome(self,
                 [user_id |-> user_id,
                  security_score |-> ClampScore(100 - anomalies_count * 10),
                  risk_level |->
                      IF recent_events # <<>> THEN RiskLevel(anomalies_count)
                      ELSE "low",
                  anomalies_count |-> anomalies_count,
                  baseline_established |-> profile.baseline_established,
                  timestamp |-> IsoFormat(t)],
                 IF recent_events # <<>> THEN recent.asked ELSE {})

----------------------------------------------------------------------------
(* The HTTP layer. *)

\* (mutant) the endpoint derives device_match from the anomalies
device_data_deriving_match(returned) ==
    [status |-> "success",
     message |-> "Device data processed",
     device_match |-> Get(returned, "anomalies_detected", <<>>) = <<>>,
     anomalies_detected |-> Get(returned, "anomalies_detected", <<>>)]

\* the JSON body the route /api/behavior/device answers with, given what
\* process_device_data returned
device_data(returned) ==
    [status |-> "success",
     message |-> "Device data processed",
     device_match |-> Get(returned, "device_match", TRUE),
     anomalies_detected |-> Get(returned, "anomalies_detected", <<>>)]

----------------------------------------------------------------------------
(* The inputs explored. *)

\* the user the calls are made for
Users == {"u1"}

KeyEvent(type, timestamp) == [type |-> type, timestamp |-> timestamp, key |-> "a"]

\* n key presses one second apart: n - 1 intervals of 1, typing speed n
KeydownRun(n) == [i \in 1..n |-> KeyEvent("keydown", i)]

KeystrokeBatches ==
    { <<>>,
      KeydownRun(2),
      <<KeyEvent("keydown", 5), KeyEvent("keydown", 5)>>,
      <<KeyEvent("keydown", 4), KeyEvent("keyup", 5), KeyEvent("keydown", 2)>>,
      KeydownRun(SufficientKeystrokes),
      KeydownRun(SufficientKeystrokes + 1) }

MouseEvent(type, timestamp) == [type |-> type, timestamp |-> timestamp, x |-> 7]

MouseBatches ==
    { <<>>,
      <<MouseEvent("click", 1)>>,
      <<MouseEvent("move", 1), MouseEvent("scroll", 2)>>,
      <<MouseEvent("click", 1), MouseEvent("scroll", 2), MouseEvent("click", 3)>> }

Snapshot(screen_resolution, browser_info, os_info, ip_address) ==
    [screen_resolution |-> screen_resolution, browser_info |-> browser_info,
     os_info |-> os_info, ip_address |-> ip_address]

DeviceSnapshots ==
    { Snapshot("1920x1080", "Firefox", "Linux", "1.2.3.4"),
      Snapshot("1920x1080", "Firefox", "Linux", "5.6.7.8"),
      Snapshot("800x600", "Firefox", "Linux", "1.2.3.4"),
      Snapshot("1920x1080", "Chrome", "Windows", "1.2.3.4"),
      Snapshot("1920x1080", "Firefox", "Linux", ""),
      [ip_address |-> "5.6.7.8"] }

----------------------------------------------------------------------------
(* The state machine: one action per public operation. *)

\* the margins worth choosing among: one when no new query is put
NewMargins(asked) ==
    IF asked \subseteq DOMAIN decisions THEN {0} ELSE Margins

\* the tag of the events of a batch operation
ModalityOf ==
    [process_keystroke_data |-> "keystroke", process_mouse_data |-> "mouse"]

\* the call returns: the manager's dicts, the answers given, the clock
Return(op, user_id, arg, out, m) ==
    /\ user_profiles' = out.self.user_profiles
    /\ behavior_buffer' = out.self.behavior_buffer
    /\ anomaly_models' = out.self.anomaly_models
    /\ scalers' = out.self.scalers
    /\ decisions' = [q \in (DOMAIN decisions) \cup out.asked |-> Decide(q, m)]
    /\ now' = now + 1
    /\ budget' = budget - 1
    /\ call' = [op |-> op, user_id |-> user_id, arg |-> arg]
    /\ result' = out.results
    /\ submitted' =
          IF /\ op \in DOMAIN ModalityOf
             /\ ~IsRaised(out.results)
             /\ "error" \notin DOMAIN out.results
          THEN Put(submitted, user_id,
                   Get(submitted, user_id, <<>>)
                       \o TagAll(arg, ModalityOf[op], now + 1))
          ELSE submitted
    /\ previous' = [call |-> call, result |-> result]
    /\ caller_events' =
          IF /\ op \in DOMAIN ModalityOf
             /\ ~IsRaised(out.results)
             /\ "error" \notin DOMAIN out.results
          THEN CallerEvents(arg, ModalityOf[op], now + 1)
          ELSE arg
    /\ UNCHANGED <<backend, threads>>

\* (each outcome is bound by \E so that it is computed once)
KeystrokeData(user_id, keystroke_events) ==
    /\ budget > 0
    /\ \E out0 \in {process_keystroke_data(Self, user_id, keystroke_events, now + 1, 0)} :
       \E m \in NewMargins(out0.asked) :
       \E out \in {IF m = 0 THEN out0
                   ELSE process_keystroke_data(Self, user_id, keystroke_events, now + 1, m)} :
          Return("process_keystroke_data", user_id, keystroke_events, out, m)

MouseData(user_id, mouse_events) ==
    /\ budget > 0
    /\ \E out0 \in {process_mouse_data(Self, user_id, mouse_events, now + 1, 0)} :
       \E m \in NewMargins(out0.asked) :
       \E out \in {IF m = 0 THEN out0
                   ELSE process_mouse_data(Self, user_id, mouse_events, now + 1, m)} :
          Return("process_mouse_data", user_id, mouse_events, out, m)

DeviceData(user_id, device_info) ==
    /\ budget > 0
    /\ \E out \in {process_device_data(Self, user_id, device_info, now + 1)} :
          Return("process_device_data", user_id, device_info, out, 0)

SecurityScore(user_id) ==
    /\ budget > 0
    /\ \E out0 \in {get_security_score(Self, user_id, now + 1, 0)} :
       \E m \in NewMargins(out0.asked) :
       \E out \in {IF m = 0 THEN out0
                   ELSE get_security_score(Self, user_id, now + 1, m)} :
          Return("get_security_score", user_id, None, out, m)

\* process_keystroke_data or process_mouse_data called with None for the batch
BatchNone(op, user_id) ==
    /\ budget > 0
    /\ op \in DOMAIN ModalityOf
    /\ Return(op, user_id, None, process_batch_none(Self, user_id, now + 1), 0)

\* a direct call of the public method create_user_profile
CreateUserProfile(user_id) ==
    /\ budget > 0
    /\ Return("create_user_profile", user_id, None,
              Outcome(create_user_profile(Self, user_id, now + 1),
                      NewProfile(user_id, now + 1), {}),
              0)

\* no call yet, nothing returned
NoCall ==
    [call |-> [op |-> "none", user_id |-> None, arg |-> None],
     result |-> [user_id |-> None]]

\* the module's global instance, before any call
Init ==
    /\ backend \in Backends
    /\ user_profiles = NewManager.user_profiles
    /\ behavior_buffer = NewManager.behavior_buffer
    /\ anomaly_models = NewManager.anomaly_models
    /\ scalers = NewManager.scalers
    /\ decisions = EmptyDict
    /\ now = 0
    /\ budget = MaxCalls
    /\ call = NoCall.call
    /\ result = NoCall.result
    /\ submitted = EmptyDict
    /\ previous = NoCall
    /\ threads = EmptyDict
    /\ caller_events = None

\* the calls the HTTP layer makes
Next ==
    \E user_id \in Users :
        \/ \E keystroke_events \in KeystrokeBatches : KeystrokeData(user_id, keystroke_events)
        \/ \E mouse_events \in MouseBatches : MouseData(user_id, mouse_events)
        \/ \E device_info \in DeviceSnapshots : DeviceData(user_id, device_info)
        \/ SecurityScore(user_id)

Spec == Init /\ [][Next]_vars

\* every public method, create_user_profile included
NextPublic ==
    \/ Next
    \/ \E user_id \in Users : CreateUserProfile(user_id)

SpecPublic == Init /\ [][NextPublic]_vars

----------------------------------------------------------------------------
(* A long session of one user, in which the histories fill up: batches of  *)
(* one click until the click history is full, and from then on also long   *)
(* keystroke batches.                                                      *)

LongUser == "u1"

OneClick == <<MouseEvent("click", 1)>>

LongKeystrokeBatches == { KeydownRun(2), KeydownRun(MaxIntervals \div 2 + 1) }

ClickHistoryFull ==
    /\ LongUser \in DOMAIN user_profiles
    /\ Len(user_profiles[LongUser].mouse_patterns.click_patterns) = MaxClickPatterns

InitLong ==
    /\ backend \in Backends
    /\ user_profiles = NewManager.user_profiles
    /\ behavior_buffer = NewManager.behavior_buffer
    /\ anomaly_models = NewManager.anomaly_models
    /\ scalers = NewManager.scalers
    /\ decisions = EmptyDict
    /\ now = 0
    /\ budget = MaxLongCalls
    /\ call = NoCall.call
    /\ result = NoCall.result
    /\ submitted = EmptyDict
    /\ previous = NoCall
    /\ threads = EmptyDict
    /\ caller_events = None

NextLong ==
    \/ MouseData(LongUser, OneClick)
    \/ /\ ClickHistoryFull
       /\ \E keystroke_events \in LongKeystrokeBatches :
             KeystrokeData(LongUser, keystroke_events)

SpecLong == InitLong /\ [][NextLong]_vars

----------------------------------------------------------------------------
(* Calls with arguments that are not what the operations expect: None for  *)
(* the batch or the snapshot, and a batch with a record that is no dict.   *)

Malformed == NonDict("oops")

FaultyKeystrokeBatches ==
    { KeydownRun(2),
      <<KeyEvent("keydown", 1), Malformed, KeyEvent("keydown", 3)>>,
      <<KeyEvent("keydown", 5), KeyEvent("keydown", 5)>> }

FaultyMouseBatches ==
    { OneClick,
      <<MouseEvent("click", 1), Malformed, MouseEvent("click", 3)>> }

FaultySnapshots ==
    { Snapshot("1920x1080", "Firefox", "Linux", "1.2.3.4"),
      Snapshot("1920x1080", "Firefox", "Linux", "5.6.7.8"),
      NonDict(None) }

NextFault ==
    \E user_id \in Users :
        \/ \E op \in DOMAIN ModalityOf : BatchNone(op, user_id)
        \/ \E keystroke_events \in FaultyKeystrokeBatches :
              KeystrokeData(user_id, keystroke_events)
        \/ \E mouse_events \in FaultyMouseBatches : MouseData(user_id, mouse_events)
        \/ \E device_info \in FaultySnapshots : DeviceData(user_id, device_info)
        \/ SecurityScore(user_id)

SpecFault == Init /\ [][NextFault]_vars

----------------------------------------------------------------------------
(* Calls for two users on the one manager, well-formed and faulting.       *)

TwoUsers == {"u1", "u2"}

TwoUserKeystrokeBatches ==
    { KeydownRun(SufficientKeystrokes + 1),
      <<KeyEvent("keydown", 1), Malformed, KeyEvent("keydown", 3)>> }

TwoUserSnapshots ==
    { Snapshot("1920x1080", "Firefox", "Linux", "5.6.7.8"),
      NonDict(None) }

NextTwo ==
    \E user_id \in TwoUsers :
        \/ BatchNone("process_keystroke_data", user_id)
        \/ \E keystroke_events \in TwoUserKeystrokeBatches :
              KeystrokeData(user_id, keystroke_events)
        \/ MouseData(user_id, OneClick)
        \/ \E device_info \in TwoUserSnapshots : DeviceData(user_id, device_info)
        \/ SecurityScore(user_id)

SpecTwo == Init /\ [][NextTwo]_vars

----------------------------------------------------------------------------
(* Two request threads, each in one process_keystroke_data or              *)
(* process_mouse_data call for the same user on the shared manager.  The   *)
(* manager has no lock; a thread can be preempted between any two          *)
(* statements.  The steps below are runs of statements executed without    *)
(* preemption, which is one of the schedules the interpreter allows.  The  *)
(* clock is read as it stood when the latest call began.                   *)

Threads == {"t1", "t2"}

ThreadUser == "u1"

TwoClicks == <<MouseEvent("click", 1), MouseEvent("click", 2)>>

\* the calls a thread may be in
ThreadCalls ==
    { [op |-> "process_keystroke_data", batch |-> KeydownRun(2)],
      [op |-> "process_mouse_data", batch |-> TwoClicks] }

\* the manager the threads find: new, or after the one call recorded in
\* call, which leaves the user one interval short of a baseline
EarlierCall ==
    [op |-> "process_keystroke_data", user_id |-> ThreadUser,
     arg |-> KeydownRun(SufficientKeystrokes)]

AfterEarlierCall ==
    process_keystroke_data(NewManager, EarlierCall.user_id, EarlierCall.arg, 1, 0)

\* a thread about to enter its call
ThreadStart(c) ==
    [op |-> c.op, batch |-> c.batch, pc |-> "start", appended |-> 0,
     features |-> EmptyDict, results |-> EmptyDict, training_data |-> <<>>]

\* the manager's dicts become those of s
Install(s) ==
    /\ user_profiles' = s.user_profiles
    /\ behavior_buffer' = s.behavior_buffer
    /\ anomaly_models' = s.anomaly_models
    /\ scalers' = s.scalers

\* what a thread's step leaves alone
ThreadFrame ==
    UNCHANGED <<backend, budget, call, result, submitted, previous, caller_events>>

\* profile creation if missing, the results dict, extraction and the
\* profile update
Begin(t) ==
    LET th == threads[t]
        s0 == EnsureProfile(Self, ThreadUser, now + 1)
        profile == s0.user_profiles[ThreadUser]
        features ==
            IF th.op = "process_keystroke_data"
            THEN _extract_keystroke_features(th.batch)
            ELSE _extract_mouse_features(th.batch)
        updated ==
            IF th.op = "process_keystroke_data"
            THEN _update_keystroke_profile(profile, features)
            ELSE _update_mouse_profile(profile, features)
        results ==
            [user_id |-> ThreadUser,
             events_processed |-> Len(th.batch),
             anomaly_score |-> 0,
             anomalies_detected |-> <<>>,
             timestamp |-> IsoFormat(now + 1)]
    IN  /\ th.pc = "start"
        /\ IF IsRaised(features)
           THEN /\ Install(s0)
                /\ threads' = [threads EXCEPT ![t] =
                       [th EXCEPT !.pc = "done",
                                  !.results = Put(results, "error", features.raised)]]
           ELSE /\ Install([s0 EXCEPT !.user_profiles[ThreadUser] = updated])
                /\ threads' = [threads EXCEPT ![t] =
                       [th EXCEPT !.pc = "append", !.features = features,
                                  !.results = results]]
        /\ now' = now + 1
        /\ UNCHANGED decisions
        /\ ThreadFrame

\* one pass of the loop that tags an event and appends it to the buffer
AppendOne(t) ==
    LET th == threads[t]
    IN  /\ th.pc = "append"
        /\ th.appended < Len(th.batch)
        /\ behavior_buffer' =
              [behavior_buffer EXCEPT ![ThreadUser] =
                  Append(@, Tagged(th.batch[th.appended + 1], ModalityOf[th.op], now))]
        /\ threads' = [threads EXCEPT ![t].appended = @ + 1]
        /\ UNCHANGED <<user_profiles, anomaly_models, scalers, decisions, now>>
        /\ ThreadFrame

\* the loop is over: the buffer is cut to its last buffer_size entries
Truncate(t) ==
    LET th == threads[t]
    IN  /\ th.pc = "append"
        /\ th.appended = Len(th.batch)
        /\ behavior_buffer' =
              [behavior_buffer EXCEPT ![ThreadUser] = LastN(@, buffer_size)]
        /\ threads' = [threads EXCEPT ![t].pc = "detect"]
        /\ UNCHANGED <<user_profiles, anomaly_models, scalers, decisions, now>>
        /\ ThreadFrame

\* the score of a thread's features with margin m
ThreadScore(th, m) ==
    IF th.op = "process_keystroke_data"
    THEN _detect_keystroke_anomalies(Self, ThreadUser, th.features, m)
    ELSE _detect_mouse_anomalies(Self, ThreadUser, th.features, m)

\* 'description' of the entry a batch operation reports
DescriptionOf ==
    [process_keystroke_data |-> "Unusual keystroke pattern detected",
     process_mouse_data |-> "Unusual mouse movement pattern detected"]

\* scoring if the baseline is established, and the call returns; else
\* (keystrokes only) the sufficiency check, the flag, and _train_user_model
\* up to and including scaler.fit
Finish(t) ==
    LET th == threads[t]
        profile == user_profiles[ThreadUser]
    IN  /\ th.pc = "detect"
        /\ IF profile.baseline_established
           THEN \E m \in NewMargins(ThreadScore(th, 0).asked) :
                  LET scored == ThreadScore(th, m)
                  IN  /\ threads' = [threads EXCEPT ![t] =
                             [th EXCEPT
                                !.pc = "done",
                                !.results =
                                   [th.results EXCEPT
                                      !.anomaly_score = scored.score,
                                      !.anomalies_detected =
                                         IF ExceedsThreshold(scored.score, profile.anomaly_threshold)
                                         THEN <<[type |-> ModalityOf[th.op],
                                                 score |-> scored.score,
                                                 description |-> DescriptionOf[th.op]]>>
                                         ELSE <<>>]]]
                      /\ decisions' =
                            [q \in (DOMAIN decisions) \cup scored.asked |-> Decide(q, m)]
                      /\ UNCHANGED <<user_profiles, behavior_buffer, anomaly_models, scalers>>
           ELSE /\ UNCHANGED decisions
                /\ IF th.op = "process_keystroke_data" /\ _check_baseline_sufficient(profile)
                   THEN LET flagged ==
                                [Self EXCEPT
                                   !.user_profiles[ThreadUser].baseline_established = TRUE]
                            training_data == TrainingData(profile)
                            scaler == scalers[ThreadUser]
                        IN  IF SKLEARN_AVAILABLE /\ Len(training_data) > 0 /\ NumpyAvailable
                            THEN /\ Install(
                                       IF ScalerTruth(scaler) = "True"
                                       THEN [flagged EXCEPT !.scalers[ThreadUser] =
                                                Fit(scaler, training_data)]
                                       ELSE flagged)
                                 /\ threads' = [threads EXCEPT ![t] =
                                        [th EXCEPT !.pc = "fit_model",
                                                   !.training_data = training_data]]
                            ELSE /\ Install(flagged)
                                 /\ threads' = [threads EXCEPT ![t].pc = "done"]
                   ELSE /\ threads' = [threads EXCEPT ![t].pc = "done"]
                        /\ UNCHANGED <<user_profiles, behavior_buffer, anomaly_models, scalers>>
        /\ UNCHANGED now
        /\ ThreadFrame

\* the rest of _train_user_model: the model's truth test and model.fit, or
\* the except branch; the call returns
FitModel(t) ==
    LET th == threads[t]
        model == anomaly_models[ThreadUser]
    IN  /\ th.pc = "fit_model"
        /\ anomaly_models' =
              IF ModelTruth(model) = "True"
              THEN [anomaly_models EXCEPT ![ThreadUser] = Fit(model, th.training_data)]
              ELSE anomaly_models
        /\ threads' = [threads EXCEPT ![t].pc = "done"]
        /\ UNCHANGED <<user_profiles, behavior_buffer, scalers, decisions, now>>
        /\ ThreadFrame

InitConcurrent ==
    /\ backend \in Backends
    /\ \/ /\ user_profiles = NewManager.user_profiles
          /\ behavior_buffer = NewManager.behavior_buffer
          /\ anomaly_models = NewManager.anomaly_models
          /\ scalers = NewManager.scalers
          /\ now = 0
          /\ call = NoCall.call
          /\ result = NoCall.result
          /\ submitted = EmptyDict
       \/ /\ user_profiles = AfterEarlierCall.self.user_profiles
          /\ behavior_buffer = AfterEarlierCall.self.behavior_buffer
          /\ anomaly_models = AfterEarlierCall.self.anomaly_models
          /\ scalers = AfterEarlierCall.self.scalers
          /\ now = 1
          /\ call = EarlierCall
          /\ result = AfterEarlierCall.results
          /\ submitted = behavior_buffer
    /\ decisions = EmptyDict
    /\ budget = 0
    /\ previous = NoCall
    /\ threads \in [Threads -> {ThreadStart(c) : c \in ThreadCalls}]
    /\ caller_events = None

NextConcurrent ==
    \E t \in Threads :
        Begin(t) \/ AppendOne(t) \/ Truncate(t) \/ Finish(t) \/ FitModel(t)

SpecConcurrent == InitConcurrent /\ [][NextConcurrent]_vars

----------------------------------------------------------------------------
(* The claims. *)

HasProfile(u) == u \in DOMAIN user_profiles

Established(u) == HasProfile(u) /\ user_profiles[u].baseline_established

Trained(u) == u \in DOMAIN anomaly_models /\ anomaly_models[u].kind = "Fitted"

IntervalHistory(u) == user_profiles[u].keystroke_patterns.keystroke_intervals

ClickHistory(u) == user_profiles[u].mouse_patterns.click_patterns

\* the last call was op for user u
Called(op, u) == call.op = op /\ call.user_id = u

Faulted == "error" \in DOMAIN result

\* C1: over every sequence of calls of the public methods, create_user_profile
\* included, a profile starts with baseline_established false and, once the
\* flag is true for a user, it is true in every later state.
C1_BaselineNeverReverts ==
    [][\A u \in Users :
          /\ ~create_user_profile(Self, u, now + 1).user_profiles[u].baseline_established
          /\ Established(u) => Established(u)']_vars

\* C2: whenever baseline_established is true the user's model is trained, and
\* get_security_score never scores a user's buffered events against a model
\* that is not trained.
C2_TrainedBeforeFlagAndScoring ==
    \A u \in DOMAIN user_profiles :
        /\ Established(u) => Trained(u)
        /\ (Called("get_security_score", u) /\ behavior_buffer[u] # <<>>) => Trained(u)

\* C3: with fewer than 50 stored intervals and fewer than 20 stored click
\* entries the baseline is not established; and when a process_keystroke_data
\* call returns with 50 or more intervals stored, the baseline is established.
C3_SufficiencyBoundary ==
    \A u \in DOMAIN user_profiles :
        /\ (Len(IntervalHistory(u)) < 50 /\ Len(ClickHistory(u)) < 20)
               => ~Established(u)
        /\ (Called("process_keystroke_data", u) /\ Len(IntervalHistory(u)) >= 50)
               => Established(u)

\* the call that took the history from 49 intervals to 50: a batch of two key
\* presses adds one interval
C3_Witness ==
    /\ Called("process_keystroke_data", "u1")
    /\ Len(call.arg) = 2
    /\ ~Faulted
    /\ Len(IntervalHistory("u1")) = 50
    /\ Established("u1")

\* C4: a process_keystroke_data or process_mouse_data call that returns without
\* a fault leaves the user baselined whenever the histories are sufficient; in
\* particular a mouse batch that brings the click history to 20 entries
\* establishes the baseline in that call.
C4_BothEstablishBaseline ==
    \A u \in DOMAIN user_profiles :
        ((Called("process_keystroke_data", u) \/ Called("process_mouse_data", u))
            /\ ~Faulted
            /\ (Len(IntervalHistory(u)) >= 50 \/ Len(ClickHistory(u)) >= 20))
        => Established(u)

\* C5: the interval history holds at most 1000 entries, the click history at
\* most 100 and the behaviour buffer at most 50, in every state.
C5_BoundedHistories ==
    \A u \in DOMAIN user_profiles :
        /\ Len(IntervalHistory(u)) <= 1000
        /\ Len(ClickHistory(u)) <= 100
        /\ Len(behavior_buffer[u]) <= 50

\* all three are full, after more click entries than the click history holds
\* and three keystroke batches that carried more than 1000 intervals in all
C5_Witness ==
    /\ Called("process_mouse_data", LongUser)
    /\ now = 104
    /\ Len(submitted[LongUser]) > 100 + 1001
    /\ Len(IntervalHistory(LongUser)) = 1000
    /\ Len(ClickHistory(LongUser)) = 100
    /\ Len(behavior_buffer[LongUser]) = 50

\* C6: a user's buffer is the last 50 entries of everything submitted for the
\* user in batches processed without a fault, tagged, in submission order.
C6_BufferIsFifo ==
    \A u \in DOMAIN behavior_buffer :
        behavior_buffer[u] = LastN(Get(submitted, u, <<>>), 50)

\* entries were evicted, and what is left runs from a keystroke batch into a
\* later mouse batch
C6_Witness ==
    /\ HasProfile("u1")
    /\ Len(Get(submitted, "u1", <<>>)) > 50
    /\ Len(behavior_buffer["u1"]) = 50
    /\ behavior_buffer["u1"][1].type = "keystroke"
    /\ behavior_buffer["u1"][50].type = "mouse"

\* C7: for a user without a profile get_security_score returns score 0, risk
\* 'unknown', no anomalies and no baseline; for any other user the score is
\* max(0, min(100, 100 - 10 * anomalies_count)) and the risk is 'low' for 0
\* anomalies, 'medium' for 1 or 2 and 'high' above 2.
C7_ScoreFormula ==
    call.op = "get_security_score" =>
        IF ~HasProfile(call.user_id)
        THEN result = [user_id |-> call.user_id, security_score |-> 0,
                       risk_level |-> "unknown", anomalies_count |-> 0,
                       baseline_established |-> FALSE]
        ELSE LET n == result.anomalies_count
                 raw == 100 - 10 * n
             IN  /\ result.security_score =
                        (IF raw > 100 THEN 100 ELSE IF raw < 0 THEN 0 ELSE raw)
                 /\ n = 0 => result.risk_level = "low"
                 /\ n \in {1, 2} => result.risk_level = "medium"
                 /\ n > 2 => result.risk_level = "high"

\* an assessment of a known user that found one anomaly
C7_Witness ==
    /\ Called("get_security_score", "u1")
    /\ HasProfile("u1")
    /\ result.anomalies_count = 1
    /\ result.security_score = 90
    /\ result.risk_level = "medium"

\* C8: an assessment counts at most one finding for the keystroke channel
\* and one for the mouse channel, each with a score above 0.5; so
\* anomalies_count is 0, 1 or 2, the risk is never 'high' and a known user's
\* score is at least 80.
C8_AtMostTwoFindings ==
    (call.op = "get_security_score" /\ HasProfile(call.user_id)) =>
        LET found ==
                _analyze_recent_behavior(Self, call.user_id,
                    behavior_buffer[call.user_id], now, 0).anomalies
        IN  /\ result.anomalies_count \in {0, 1, 2}
            /\ result.risk_level # "high"
            /\ result.security_score >= 80
            /\ result.anomalies_count = Len(found)
            /\ \A i \in DOMAIN found :
                  /\ found[i].type \in {"keystroke", "mouse"}
                  /\ found[i].score > 50
                  /\ \A j \in DOMAIN found : found[j].type = found[i].type => j = i

\* an assessment that analysed both channels with a trained model
C8_Witness ==
    /\ Called("get_security_score", "u1")
    /\ HasProfile("u1")
    /\ Trained("u1")
    /\ \E i, j \in DOMAIN behavior_buffer["u1"] :
          /\ behavior_buffer["u1"][i].type = "keystroke"
          /\ behavior_buffer["u1"][j].type = "mouse"
    /\ result.anomalies_count = 1

\* the device fields stored for u (all None for a user without a profile)
StoredDevice(u) ==
    IF HasProfile(u) THEN user_profiles[u].device_patterns
    ELSE [f \in DeviceFields |-> None]

ComparedFields == <<"screen_resolution", "browser_info", "ip_address">>

SeverityOf == [screen_resolution |-> "medium", browser_info |-> "low", ip_address |-> "high"]

\* the severities of the entries returned, in order
Severities(anomalies) == [i \in DOMAIN anomalies |-> anomalies[i].severity]

\* C9 (as stated): one entry for each compared field whose stored value is
\* there (not None) and differs from the snapshot's, of severity medium, low,
\* high for resolution, browser, IP, and none for a field with no stored value.
C9_EntryPerStoredMismatch ==
    [][call'.op = "process_device_data" =>
          LET stored == StoredDevice(call'.user_id)
              info == call'.arg
              differing ==
                  SelectSeq(ComparedFields,
                      LAMBDA f : stored[f] # None /\ stored[f] # Get(info, f, None))
          IN  Severities(result'.anomalies_detected)
                  = [i \in DOMAIN differing |-> SeverityOf[differing[i]]]]_vars

\* C9 (amended): one entry for each compared field whose stored value is
\* neither None nor empty and differs from the snapshot's (None when the
\* snapshot carries none), of severity medium, low, high for resolution,
\* browser, IP, and none for a field whose stored value is None or empty.
C9_EntryPerNonEmptyMismatch ==
    [][call'.op = "process_device_data" =>
          LET stored == StoredDevice(call'.user_id)
              info == call'.arg
              differing ==
                  SelectSeq(ComparedFields,
                      LAMBDA f : stored[f] \notin {None, ""}
                                   /\ stored[f] # Get(info, f, None))
          IN  /\ Severities(result'.anomalies_detected)
                    = [i \in DOMAIN differing |-> SeverityOf[differing[i]]]
              /\ \A i \in DOMAIN result'.anomalies_detected :
                    result'.anomalies_detected[i].type = "device"]_vars

\* a snapshot that differs from the stored one in the IP address only:
\* exactly one entry, of severity high
C9_Witness ==
    /\ Called("process_device_data", "u1")
    /\ call.arg = Snapshot("1920x1080", "Firefox", "Linux", "5.6.7.8")
    /\ Severities(result.anomalies_detected) = <<"high">>

\* C10: after a process_device_data call each stored device field holds the
\* value the snapshot of that call carries for it.
C10_StoredIsLastSnapshot ==
    \A u \in DOMAIN user_profiles :
        Called("process_device_data", u) =>
            \A f \in DeviceFields :
                user_profiles[u].device_patterns[f] = Get(call.arg, f, None)

\* the last two calls were both get_security_score for the same user
ScoredTwice ==
    /\ call.op = "get_security_score"
    /\ previous.call.op = "get_security_score"
    /\ previous.call.user_id = call.user_id

\* a result record without its timestamp field
WithoutTimestamp(r) == [k \in (DOMAIN r) \ {"timestamp"} |-> r[k]]

\* C11 (as stated): two consecutive get_security_score calls for a user, with
\* no other call between them, return identical result records.
C11_RepeatedScoreIdentical ==
    ScoredTwice => result = previous.result

\* C11 (amended): two consecutive get_security_score calls for a user return
\* records that are equal in every field other than timestamp (and equal
\* outright for a user without a profile, whose record has no timestamp).
C11_RepeatedScoreSameAssessment ==
    ScoredTwice =>
        /\ WithoutTimestamp(result) = WithoutTimestamp(previous.result)
        /\ DOMAIN result = DOMAIN previous.result
        /\ ~HasProfile(call.user_id) => result = previous.result

\* two assessments in a row of a trained user, both counting one anomaly,
\* read at different times
C11_Witness ==
    /\ ScoredTwice
    /\ HasProfile(call.user_id)
    /\ Trained(call.user_id)
    /\ result.anomalies_count = 1
    /\ previous.result.anomalies_count = 1
    /\ result.timestamp # previous.result.timestamp

\* the histories and the buffer of u, empty for a user without a profile
IntervalsOf(u) == IF HasProfile(u) THEN IntervalHistory(u) ELSE <<>>

ClicksOf(u) == IF HasProfile(u) THEN ClickHistory(u) ELSE <<>>

BufferOf(u) == Get(behavior_buffer, u, <<>>)

\* what a batch adds to the interval history: the differences of its
\* consecutive keydown timestamps
BatchIntervals(keystroke_events) == Intervals(KeydownTimes(keystroke_events))

NoModelFor(u) ==
    \/ Get(anomaly_models, u, NoObject) = NoObject
    \/ Get(scalers, u, NoObject) = NoObject

\* C13: with the backend available, scoring a keystroke or a mouse feature
\* vector for a user who has no model or no scaler returns the sentinel 0.1.
C13_NoModelGivesSentinel ==
    SKLEARN_AVAILABLE =>
        \A u \in Users :
            NoModelFor(u) =>
                /\ _detect_keystroke_anomalies(
                       Self, u, _extract_keystroke_features(KeydownRun(2)), 0).score
                     = SentinelScore
                /\ _detect_mouse_anomalies(
                       Self, u, _extract_mouse_features(OneClick), 0).score
                     = SentinelScore

\* the last call was a batch operation
BatchCall == call.op \in {"process_keystroke_data", "process_mouse_data"}

\* C14: the anomaly_score of every result of process_keystroke_data and
\* process_mouse_data, and the score of every entry of its
\* anomalies_detected, is between 0 and 1 (0 and 100 hundredths), whatever
\* margin the backend gave, on the fault and sentinel paths too.
C14_ScoresInUnitRange ==
    BatchCall =>
        /\ result.anomaly_score \in 0..100
        /\ \A i \in DOMAIN result.anomalies_detected :
              result.anomalies_detected[i].score \in 0..100

\* a keystroke batch scored with a margin of 0.6: 1.1 clamped to 1
C14_Witness ==
    /\ Called("process_keystroke_data", "u1")
    /\ Trained("u1")
    /\ \E q \in DOMAIN decisions : decisions[q] = 60
    /\ result.anomaly_score = 100
    /\ Len(result.anomalies_detected) = 1
    /\ result.anomalies_detected[1].score = 100

\* C15: process_keystroke_data, process_mouse_data and process_device_data
\* never propagate an exception, whatever the batch or snapshot (None and
\* malformed records included): a fault gives a returned record with an
\* 'error' field, anomaly_score 0.0 and no anomalies_detected.
C15_NeverPropagates ==
    call.op \in {"process_keystroke_data", "process_mouse_data", "process_device_data"} =>
        /\ ~IsRaised(result)
        /\ Faulted =>
              /\ result.anomalies_detected = <<>>
              /\ BatchCall => result.anomaly_score = 0

\* the last call was given a batch with a record that is no dict next to
\* records that are
MixedBatch ==
    /\ BatchCall
    /\ ~IsRaised(result)
    /\ \E i \in DOMAIN call.arg : ~IsDict(call.arg[i])
    /\ \E i \in DOMAIN call.arg : IsDict(call.arg[i])

\* C16: when a batch has one malformed record among well-formed ones, the
\* call does not fault and the well-formed events are extracted from, added
\* to the profile and appended to the buffer.
C16_MalformedRecordSkipped ==
    MixedBatch =>
        LET u == call.user_id
            good == SelectSeq(call.arg, IsDict)
            tagged == TagAll(good, ModalityOf[call.op], now)
        IN  /\ ~Faulted
            /\ result.events_processed >= Len(good)
            /\ LastN(behavior_buffer[u], Len(good)) = tagged
            /\ call.op = "process_keystroke_data" =>
                  LastN(IntervalHistory(u), Len(BatchIntervals(good)))
                      = BatchIntervals(good)
            /\ call.op = "process_mouse_data" =>
                  /\ ClickHistory(u) # <<>>
                  /\ ClickHistory(u)[Len(ClickHistory(u))] = CountType(good, "click")

\* the manager after thread th's call, made alone on manager self
AfterCall(self, th) ==
    IF th.op = "process_keystroke_data"
    THEN process_keystroke_data(self, ThreadUser, th.batch, 0, 0).self
    ELSE process_mouse_data(self, ThreadUser, th.batch, 0, 0).self

\* the manager after the calls of threads first and second, one after the
\* other, on a new manager
Serial(first, second) ==
    AfterCall(AfterCall(IF call = EarlierCall THEN AfterEarlierCall.self ELSE NewManager,
                        threads[first]),
              threads[second])

\* buffer entries without the time they were tagged at
Untimed(events) ==
    [i \in DOMAIN events |->
        [k \in (DOMAIN events[i]) \ {"timestamp"} |-> events[i][k]]]

\* the shared manager holds for the user what manager s holds
SameOutcome(s) ==
    LET mine == user_profiles[ThreadUser]
        theirs == s.user_profiles[ThreadUser]
    IN  /\ Untimed(behavior_buffer[ThreadUser]) = Untimed(s.behavior_buffer[ThreadUser])
        /\ mine.keystroke_patterns = theirs.keystroke_patterns
        /\ mine.mouse_patterns = theirs.mouse_patterns
        /\ mine.baseline_established = theirs.baseline_established
        /\ anomaly_models[ThreadUser] = s.anomaly_models[ThreadUser]
        /\ scalers[ThreadUser] = s.scalers[ThreadUser]

BothReturned ==
    /\ DOMAIN threads = Threads
    /\ \A t \in Threads : threads[t].pc = "done"

\* C17: two concurrent process_keystroke_data / process_mouse_data calls for
\* one user leave the profile and the buffer as one of the two sequential
\* orders of the calls would: all events of one batch before all events of
\* the other, none lost.
C17_Serialized ==
    BothReturned =>
        \/ SameOutcome(Serial("t1", "t2"))
        \/ SameOutcome(Serial("t2", "t1"))

\* scaler and model of u are both fitted, on the same rows, or both unfitted
PairConsistent(u) ==
    /\ (scalers[u].kind = "Fitted") = (anomaly_models[u].kind = "Fitted")
    /\ scalers[u].data = anomaly_models[u].data

\* a thread is about to score a batch for the baselined user
AboutToScore(t) ==
    /\ t \in DOMAIN threads
    /\ threads[t].pc = "detect"
    /\ Established(ThreadUser)

\* C18: in every state a scoring call can observe, the user's scaler and
\* model are fitted on the same training data or are both unfitted; a fitted
\* scaler with an unfitted model is never observed.
C18_PairFittedTogether ==
    \A t \in Threads : AboutToScore(t) => PairConsistent(ThreadUser)

\* C19: for a user whose baseline is established when a
\* process_keystroke_data or process_mouse_data call starts, the result's
\* anomalies_detected has exactly one entry, of the batch's modality and with
\* the result's anomaly_score, when that score is strictly above the
\* profile's anomaly_threshold, and is empty otherwise; for a user whose
\* baseline is not established it is empty.
C19_ReportedAboveThreshold ==
    [][\A u \in Users :
          (call'.user_id = u /\ call'.op \in DOMAIN ModalityOf) =>
              LET r == result'
                  found == r.anomalies_detected
              IN  IF Established(u) /\ r.anomaly_score > user_profiles[u].anomaly_threshold
                  THEN /\ Len(found) = 1
                       /\ found[1].type = ModalityOf[call'.op]
                       /\ found[1].score = r.anomaly_score
                  ELSE found = <<>>]_vars

\* a keystroke batch of a baselined user scored 0.5, above the threshold
\* of 0.15, and reported once
C19_Witness ==
    /\ Called("process_keystroke_data", "u1")
    /\ Established("u1")
    /\ user_profiles["u1"].anomaly_threshold = 15
    /\ result.anomaly_score = 50
    /\ Len(result.anomalies_detected) = 1
    /\ result.anomalies_detected[1].type = "keystroke"
    /\ result.anomalies_detected[1].score = 50

\* the manager as the step leaves it
SelfAfter ==
    [user_profiles |-> user_profiles', behavior_buffer |-> behavior_buffer',
     anomaly_models |-> anomaly_models', scalers |-> scalers']

\* what a dict holds for user b
Only(d, b) == [k \in (DOMAIN d) \cap {b} |-> d[k]]

\* what the manager holds for user b: profile, buffer, model and scaler
HeldFor(self, b) ==
    [user_profiles |-> Only(self.user_profiles, b),
     behavior_buffer |-> Only(self.behavior_buffer, b),
     anomaly_models |-> Only(self.anomaly_models, b),
     scalers |-> Only(self.scalers, b)]

\* what each operation would return for user b when called on manager self
\* at time t, the backend giving margin m to the queries it has not
\* answered yet
LaterResults(self, b, t, m) ==
    [process_keystroke_data |->
        process_keystroke_data(self, b, KeydownRun(2), t, m).results,
     process_mouse_data |-> process_mouse_data(self, b, OneClick, t, m).results,
     process_device_data |->
        process_device_data(self, b,
            Snapshot("1920x1080", "Firefox", "Linux", "1.2.3.4"), t).results,
     get_security_score |-> get_security_score(self, b, t, m).results]

\* C20: an operation for one user, whether it succeeds or faults, leaves
\* the profile, buffer, model and scaler of every other user as they were,
\* and every operation called for the other user afterwards returns what it
\* would have returned had the first operation not been performed.
C20_OtherUsersUntouched ==
    [][\A b \in TwoUsers, after \in {SelfAfter} :
          b # call'.user_id =>
              /\ HeldFor(after, b) = HeldFor(Self, b)
              /\ \A m \in Margins :
                    (\A q \in (DOMAIN decisions') \ (DOMAIN decisions) :
                          decisions'[q] = m)
                    => LaterResults(after, b, now + 2, m) = LaterResults(Self, b, now + 2, m)]_vars

\* u2 has a trained model and a full buffer, and the last call, for u1,
\* faulted
C20_Witness ==
    /\ call.user_id = "u1"
    /\ ~IsRaised(result)
    /\ "error" \in DOMAIN result
    /\ "u2" \in DOMAIN anomaly_models
    /\ anomaly_models["u2"].kind = "Fitted"
    /\ Len(behavior_buffer["u2"]) = buffer_size
    /\ user_profiles["u2"].baseline_established

\* the vector _detect_mouse_anomalies builds for a batch
MouseVector(mouse_events) ==
    LET features == _extract_mouse_features(mouse_events)
    IN  <<Get(features, "movement_speed", Zero),
          Rat(Get(features, "click_count", 0), 1),
          Rat(Get(features, "scroll_count", 0), 1),
          Get(features, "movement_variance", Zero)>>

\* the last call was a mouse batch for u that a fitted model scored
MouseScoredByModel(u) ==
    /\ Called("process_mouse_data", u)
    /\ ~IsRaised(result)
    /\ "error" \notin DOMAIN result
    /\ SKLEARN_AVAILABLE
    /\ Established(u)
    /\ CanScore(Self, u)

\* C21: when a trained model exists, the anomaly score of a mouse batch is
\* clamp(margin + 0.5, 0, 1) of the margin the model's decision function
\* gives to the batch's feature vector, as for a keystroke batch, and so it
\* can lie strictly between 0 and 1.
C21_MouseScoreFromMargin ==
    \A u \in Users :
        MouseScoredByModel(u) =>
            LET q == Query(scalers[u], anomaly_models[u], MouseVector(call.arg))
            IN  /\ q \in DOMAIN decisions
                /\ result.anomaly_score = Clamp01(decisions[q] + 50)

ProcessOps == {"process_keystroke_data", "process_mouse_data", "process_device_data"}

\* C22: the first process_* call for a user starts from a new profile (zero
\* averages, empty histories, unset device fields, no baseline, threshold
\* 0.15, empty buffer), and every later process_* call starts from the
\* profile, buffer and model the user has: the creation time and threshold
\* stay, the statistics of the other modalities stay, the histories and the
\* buffer are extended, not restarted, an established baseline stays
\* established and a fitted model and scaler stay as fitted.
C22_GetOrCreateIdempotent ==
    [][\A u \in Users, after \in {SelfAfter}, c \in {call'}, r \in {result'} :
          (c.user_id = u /\ c.op \in ProcessOps) =>
              LET before == IF u \in DOMAIN user_profiles THEN user_profiles[u]
                            ELSE NewProfile(u, now + 1)
                  buffer == Get(behavior_buffer, u, <<>>)
                  profile == after.user_profiles[u]
                  faulted == "error" \in DOMAIN r
                  kp == before.keystroke_patterns
                  mp == before.mouse_patterns
              IN  /\ profile.created_at = before.created_at
                  /\ profile.anomaly_threshold = before.anomaly_threshold
                  /\ before.baseline_established => profile.baseline_established
                  /\ c.op # "process_keystroke_data" =>
                        /\ profile.keystroke_patterns = kp
                        /\ profile.baseline_established = before.baseline_established
                  /\ c.op # "process_mouse_data" => profile.mouse_patterns = mp
                  /\ c.op # "process_device_data" =>
                        profile.device_patterns = before.device_patterns
                  /\ c.op = "process_keystroke_data" =>
                        /\ profile.keystroke_patterns.keystroke_intervals =
                              IF faulted THEN kp.keystroke_intervals
                              ELSE ExtendIntervals(kp.keystroke_intervals,
                                                   BatchIntervals(c.arg))
                        /\ kp.avg_typing_speed.n # 0 =>
                              profile.keystroke_patterns.avg_typing_speed.n # 0
                  /\ c.op = "process_mouse_data" =>
                        profile.mouse_patterns.click_patterns =
                            IF faulted \/ CountType(c.arg, "click") = 0
                            THEN mp.click_patterns
                            ELSE AppendClicks(mp.click_patterns,
                                              CountType(c.arg, "click"))
                  /\ after.behavior_buffer[u] =
                        IF faulted \/ c.op = "process_device_data" THEN buffer
                        ELSE LastN(buffer \o TagAll(c.arg, ModalityOf[c.op], now + 1),
                                   buffer_size)
                  /\ u \in DOMAIN after.anomaly_models
                  /\ u \in DOMAIN after.scalers
                  /\ (u \in DOMAIN anomaly_models /\ anomaly_models[u].kind = "Fitted") =>
                        /\ after.anomaly_models[u] = anomaly_models[u]
                        /\ after.scalers[u] = scalers[u]]_vars

\* the third call for u1, a device snapshot, found the profile created by
\* the first call with its history, its baseline, its buffer and its model
C22_Witness ==
    /\ Called("process_device_data", "u1")
    /\ previous.call.op = "process_keystroke_data"
    /\ now = 3
    /\ user_profiles["u1"].created_at = IsoFormat(1)
    /\ Established("u1")
    /\ Trained("u1")
    /\ IntervalHistory("u1") # <<>>
    /\ Len(behavior_buffer["u1"]) = buffer_size
    /\ user_profiles["u1"].device_patterns.ip_address = "5.6.7.8"

\* C23: get_security_score changes nothing the manager holds: every
\* profile, buffer, model and scaler is after the call what it was before,
\* and a user without a profile still has none; whereas after a process_*
\* call the user has a profile, also when the call faulted.
C23_ScoreIsReadOnly ==
    [][\A after \in {SelfAfter}, c \in {call'} :
          /\ c.op = "get_security_score" =>
                /\ after = Self
                /\ c.user_id \notin DOMAIN user_profiles =>
                      /\ c.user_id \notin DOMAIN after.user_profiles
                      /\ c.user_id \notin DOMAIN after.behavior_buffer
                      /\ c.user_id \notin DOMAIN after.anomaly_models
                      /\ c.user_id \notin DOMAIN after.scalers
          /\ c.op \in ProcessOps => c.user_id \in DOMAIN after.user_profiles]_vars

\* u2's score was asked for while u2 had no profile, and u2 still has none;
\* u1, scored before, kept its baseline, trained model and full buffer
C23_Witness ==
    /\ Called("get_security_score", "u2")
    /\ result.risk_level = "unknown"
    /\ DOMAIN user_profiles = {"u1"}
    /\ previous.call.op = "get_security_score"
    /\ previous.call.user_id = "u1"
    /\ previous.result.baseline_established
    /\ anomaly_models["u1"].kind = "Fitted"
    /\ Len(behavior_buffer["u1"]) = buffer_size

Subtypes == {"keydown", "keyup", "click", "scroll", "move"}

\* the features get_security_score extracts again from u's buffer
RecentKeystrokeFeatures(u) ==
    _extract_keystroke_features(OfType(BufferOf(u), "keystroke"))

RecentMouseFeatures(u) == _extract_mouse_features(OfType(BufferOf(u), "mouse"))

\* C24: every buffered event carries the tag of its batch, 'keystroke' or
\* 'mouse', as its type, none its subtype; the records of the caller's list
\* carry the tag too once the call has returned, and are the records the
\* buffer ends with; and so the features extracted again from the buffer
\* have typing speed 0, no intervals, click count 0 and scroll count 0,
\* whatever subtypes and timestamps the events had.
C24_BufferedTypeIsTag ==
    \A u \in Users :
        /\ \A i \in DOMAIN BufferOf(u) :
              BufferOf(u)[i].type \in {"keystroke", "mouse"}
        /\ \A type \in Subtypes : OfType(BufferOf(u), type) = <<>>
        /\ (BatchCall /\ call.user_id = u /\ ~IsRaised(result)
                /\ "error" \notin DOMAIN result) =>
              /\ Len(caller_events) = Len(call.arg)
              /\ \A i \in DOMAIN caller_events :
                    caller_events[i].type = ModalityOf[call.op]
              /\ LastN(BufferOf(u), Len(call.arg)) = LastN(caller_events, buffer_size)
        /\ Get(RecentKeystrokeFeatures(u), "typing_speed", Zero) = Zero
        /\ Get(RecentKeystrokeFeatures(u), "keystroke_intervals", <<>>) = <<>>
        /\ Get(RecentMouseFeatures(u), "click_count", 0) = 0
        /\ Get(RecentMouseFeatures(u), "scroll_count", 0) = 0

\* a batch of two clicks and a scroll was passed after keydown batches: the
\* caller's three records and the buffer's last three now say 'mouse', and
\* the buffer holds events of both tags
C24_Witness ==
    /\ Called("process_mouse_data", "u1")
    /\ Len(call.arg) = 3
    /\ call.arg[1].type = "click"
    /\ call.arg[2].type = "scroll"
    /\ caller_events[1].type = "mouse"
    /\ caller_events[2].type = "mouse"
    /\ OfType(BufferOf("u1"), "keystroke") # <<>>
    /\ Len(OfType(BufferOf("u1"), "mouse")) = 3
    /\ RecentMouseFeatures("u1").click_count = 0

\* the vector _detect_keystroke_anomalies builds for a batch
KeystrokeVector(keystroke_events) ==
    LET features == _extract_keystroke_features(keystroke_events)
    IN  <<Get(features, "typing_speed", Zero),
          Rat(Len(Get(features, "keystroke_intervals", <<>>)), 1),
          Get(features, "error_count", Zero),
          Get(features, "special_key_usage", Zero)>>

\* C25: the process_keystroke_data call in which baseline_established goes
\* from false to true returns anomaly_score 0.0 and no anomalies, as does
\* every batch call that starts without a baseline; a batch call that
\* starts with the baseline established, so at the earliest the next one,
\* returns the score the detector gives its own batch: the sentinel without
\* a backend, the clamped margin of the fitted model, 0.0 without one.
C25_FlipCallNotScored ==
    [][\A u \in Users, after \in {SelfAfter}, c \in {call'}, r \in {result'},
          answers \in {decisions'} :
          (c.user_id = u /\ c.op = "process_keystroke_data") =>
              IF ~Established(u)
              THEN /\ r.anomaly_score = 0
                   /\ r.anomalies_detected = <<>>
              ELSE "error" \notin DOMAIN r =>
                      r.anomaly_score =
                          IF ~SKLEARN_AVAILABLE THEN SentinelScore
                          ELSE IF ~CanScore(after, u) THEN 0
                          ELSE Clamp01(answers[Query(after.scalers[u],
                                                     after.anomaly_models[u],
                                                     KeystrokeVector(c.arg))] + 50)]_vars

\* the first call for u1 established the baseline and trained the model,
\* and returned score 0.0 and no anomalies for its 51 events
C25_Witness ==
    /\ Called("process_keystroke_data", "u1")
    /\ previous = NoCall
    /\ Established("u1")
    /\ Trained("u1")
    /\ result.events_processed = SufficientKeystrokes + 1
    /\ result.anomaly_score = 0
    /\ result.anomalies_detected = <<>>

\* user u has after the step the profile it had before it
SameProfile(after, u) ==
    /\ u \in DOMAIN user_profiles
    /\ u \in DOMAIN after.user_profiles
    /\ after.user_profiles[u].created_at = user_profiles[u].created_at

\* the step is the process_keystroke_data call for u that establishes the
\* baseline
FlipsBaseline(after, c, u) ==
    /\ c.op = "process_keystroke_data"
    /\ c.user_id = u
    /\ ~Established(u)
    /\ after.user_profiles[u].baseline_established

\* C26: a user's model and scaler are fitted, if at all, in the one call
\* that establishes the profile's baseline; no other step changes the model
\* or the scaler of a profile, and once the baseline is established it
\* stays established and the model and scaler stay as that call left them,
\* fitted or not.
C26_TrainedAtMostOnce ==
    [][\A u \in Users, after \in {SelfAfter}, c \in {call'} :
          /\ (/\ SameProfile(after, u)
              /\ \/ after.anomaly_models[u] # anomaly_models[u]
                 \/ after.scalers[u] # scalers[u])
                => FlipsBaseline(after, c, u)
          /\ (/\ u \notin DOMAIN user_profiles
              /\ u \in DOMAIN after.user_profiles
              /\ \/ after.anomaly_models[u].kind = "Fitted"
                 \/ after.scalers[u].kind = "Fitted")
                => FlipsBaseline(after, c, u)
          /\ (SameProfile(after, u) /\ Established(u))
                => /\ after.user_profiles[u].baseline_established
                   /\ after.anomaly_models[u] = anomaly_models[u]
                   /\ after.scalers[u] = scalers[u]]_vars

\* the baseline was established by the first call, whose training fitted
\* the scaler and then faulted; two more batches were scored since, and the
\* model is still the one never fitted
C26_Witness ==
    /\ now = 3
    /\ Established("u1")
    /\ user_profiles["u1"].created_at = IsoFormat(1)
    /\ anomaly_models["u1"].kind = "Unfitted"
    /\ scalers["u1"].kind = "Fitted"
    /\ BatchCall
    /\ previous.call.op = "process_keystroke_data"
    /\ Len(IntervalHistory("u1")) > SufficientKeystrokes + 1

\* C27: with the backend unavailable, and thresholds at their default 0.15,
\* no process_keystroke_data or process_mouse_data call reports an anomaly:
\* the score of a baselined user's batch is the sentinel 0.1, below the
\* threshold; and get_security_score for every user with a profile returns
\* security_score 100, risk_level 'low' and anomalies_count 0, in every
\* state.
C27_UnavailableNeverAlarms ==
    backend = "unavailable" =>
        /\ \A u \in Users :
              HasProfile(u) =>
                  /\ user_profiles[u].anomaly_threshold = DefaultAnomalyThreshold
                  /\ \E out \in {get_security_score(Self, u, now + 1, 0)} :
                        /\ out.results.security_score = 100
                        /\ out.results.risk_level = "low"
                        /\ out.results.anomalies_count = 0
        /\ (BatchCall /\ ~IsRaised(result)) =>
              /\ result.anomalies_detected = <<>>
              /\ result.anomaly_score < DefaultAnomalyThreshold
              /\ (Established(call.user_id) /\ call.op = "process_mouse_data"
                      /\ "error" \notin DOMAIN result)
                    => result.anomaly_score = SentinelScore
        /\ (call.op = "get_security_score" /\ HasProfile(call.user_id)) =>
              /\ result.security_score = 100
              /\ result.risk_level = "low"
              /\ result.anomalies_count = 0

\* without a backend, u1's score was asked for after a keystroke batch had
\* established the baseline and a mouse batch had been given the sentinel:
\* 100, low, no anomalies, with events of both kinds in the buffer
C27_Witness ==
    /\ backend = "unavailable"
    /\ Called("get_security_score", "u1")
    /\ previous.call.op = "process_mouse_data"
    /\ previous.result.anomaly_score = SentinelScore
    /\ previous.result.anomalies_detected = <<>>
    /\ result.baseline_established
    /\ result.security_score = 100
    /\ result.risk_level = "low"
    /\ OfType(BufferOf("u1"), "mouse") # <<>>
    /\ OfType(BufferOf("u1"), "keystroke") # <<>>

\* two or more keydown events, and no interval between consecutive ones
\* above 0: the division by the largest interval faults
ZeroLargestInterval(keystroke_events) ==
    /\ Len(KeydownTimes(keystroke_events)) > 1
    /\ SeqMax(BatchIntervals(keystroke_events)) = 0

\* C28: a process_keystroke_data call whose batch has a largest keydown
\* interval of 0 returns a result with an error field, anomaly_score 0.0
\* and no anomalies, and leaves the manager as it was (or, for a user
\* without a profile, as create_user_profile leaves it): statistics,
\* baseline flag, model, scaler and buffer unchanged, no event of the batch
\* buffered, the caller's records not tagged.
C28_ExtractionFaultChangesNothing ==
    [][\A u \in Users, after \in {SelfAfter}, c \in {call'}, r \in {result'},
          events \in {caller_events'} :
          (c.op = "process_keystroke_data" /\ c.user_id = u
              /\ ZeroLargestInterval(c.arg)) =>
              /\ "error" \in DOMAIN r
              /\ r.anomaly_score = 0
              /\ r.anomalies_detected = <<>>
              /\ r.events_processed = Len(c.arg)
              /\ events = c.arg
              /\ after = IF u \in DOMAIN user_profiles THEN Self
                         ELSE create_user_profile(Self, u, now + 1)]_vars

\* two keydowns with one timestamp were passed for the baselined u1: the
\* result carries the error, and the buffer still holds just the earlier
\* batch's last 50 events, the history its 50 intervals
C28_Witness ==
    /\ Called("process_keystroke_data", "u1")
    /\ ZeroLargestInterval(call.arg)
    /\ result.error = "ZeroDivisionError"
    /\ result.events_processed = 2
    /\ Established("u1")
    /\ Trained("u1")
    /\ Len(IntervalHistory("u1")) = SufficientKeystrokes
    /\ submitted["u1"] = TagAll(KeydownRun(SufficientKeystrokes + 1), "keystroke", 1)
    /\ behavior_buffer["u1"] = LastN(submitted["u1"], buffer_size)

\* C29: a process_device_data call changes, of what the manager holds for
\* the user, the device fields of the profile only (the profile being
\* created first for a user without one): keystroke and mouse statistics,
\* baseline flag, threshold, creation time, buffer, model and scaler are as
\* before, so the call never establishes a baseline.
C29_DeviceCallTouchesDeviceFieldsOnly ==
    [][\A u \in Users, after \in {SelfAfter}, c \in {call'} :
          (c.op = "process_device_data" /\ c.user_id = u) =>
              LET before == EnsureProfile(Self, u, now + 1)
                  profile == after.user_profiles[u]
              IN  /\ profile =
                        [before.user_profiles[u] EXCEPT
                            !.device_patterns = profile.device_patterns]
                  /\ DeviceFields \subseteq DOMAIN profile.device_patterns
                  /\ after.behavior_buffer = before.behavior_buffer
                  /\ after.anomaly_models = before.anomaly_models
                  /\ after.scalers = before.scalers
                  /\ profile.baseline_established = Established(u)]_vars

\* a second snapshot for the baselined u1, with another IP address: the
\* change is reported, the new address stored, and baseline, model and
\* buffer are those the keystroke batch left
C29_Witness ==
    /\ Called("process_device_data", "u1")
    /\ previous.call.op = "process_device_data"
    /\ Len(result.anomalies_detected) = 1
    /\ result.anomalies_detected[1].severity = "high"
    /\ user_profiles["u1"].device_patterns.ip_address = call.arg.ip_address
    /\ Established("u1")
    /\ Trained("u1")
    /\ behavior_buffer["u1"] =
          LastN(TagAll(KeydownRun(SufficientKeystrokes + 1), "keystroke", 1), buffer_size)

\* C30: device_match is true in the result of every process_device_data
\* call, whatever the state and the snapshot, also when anomalies_detected
\* is not empty or the call faulted, and the device endpoint answers with
\* the same value.
C30_DeviceMatchAlwaysTrue ==
    /\ call.op = "process_device_data" =>
          /\ result.device_match = TRUE
          /\ device_data(result).device_match = result.device_match
          /\ device_data(result).anomalies_detected = result.anomalies_detected
    /\ \A u \in Users, device_info \in DeviceSnapshots :
          \E out \in {process_device_data(Self, u, device_info, now + 1)} :
              /\ out.results.device_match = TRUE
              /\ device_data(out.results).device_match = TRUE

\* a snapshot carrying only another IP address against a full stored one:
\* three anomalies, one of severity high, and device_match true in the
\* result and in the endpoint's answer
C30_Witness ==
    /\ Called("process_device_data", "u1")
    /\ Len(result.anomalies_detected) = 3
    /\ result.anomalies_detected[3].severity = "high"
    /\ result.device_match = TRUE
    /\ device_data(result).device_match = TRUE
    /\ Len(device_data(result).anomalies_detected) = 3

====
